---- MODULE Spec2Model ----
(***************************************************************************)
(* Model of src/C/display.c: main() of the ssd1306 status-screen demo.     *)
(* One action per statement or call of main; pc is the position in main.   *)
(* Strings are sequences of character codes, terminated by an implicit 0.  *)
(* Times are in milliseconds: sleep(1) is 1000, usleep(150*1000) is 150.   *)
(***************************************************************************)
EXTENDS Integers, Sequences, FiniteSets, TLC

\* Largest number of command-line arguments after the program name.
MaxArgs == 2

\* The string literals of line 15: "-d" and "--debug".
DashD == <<45, 100>>
DashDashDebug == <<45, 45, 100, 101, 98, 117, 103>>

\* Arguments tried: "-d", "--debug", "-", "-dx", "--debu".
ArgVocab == {DashD, DashDashDebug, <<45>>, <<45, 100, 120>>, <<45, 45, 100, 101, 98, 117>>}

ArgLists == UNION {[1..n -> ArgVocab] : n \in 0..MaxArgs}

\* Capacity of int display_order[4].
OrderCap == 4

\* Content of a slot of display_order that was never assigned.
Unwritten == -1

\* What a read of an unassigned or out-of-range slot may yield.
Indeterminate == -1..4

VARIABLES argv, i, debug, config, display_order, display_count, idx, i2cd, pc,
          loadCalls, loadOK, loadArg, warnings, beginCalls, errMsgs, ipCalls,
          hostnameCalls, exitStatus, lastCall, lastPos, recent, slept, sleepCalls

vars == <<argv, i, debug, config, display_order, display_count, idx, i2cd, pc,
          loadCalls, loadOK, loadArg, warnings, beginCalls, errMsgs, ipCalls,
          hostnameCalls, exitStatus, lastCall, lastPos, recent, slept, sleepCalls>>

\* Local and ghost variables grouped for UNCHANGED clauses.
progVars == <<argv, i, debug, config, display_order, display_count, idx, i2cd>>
callVars == <<loadCalls, loadOK, loadArg, warnings, beginCalls, errMsgs, ipCalls,
              hostnameCalls, exitStatus>>
obsVars == <<lastCall, lastPos, recent, slept, sleepCalls>>

argc == Len(argv) + 1

ConfigSet == [show_temperature : BOOLEAN, show_cpu_memory : BOOLEAN,
              show_sd_memory : BOOLEAN, show_hostname : BOOLEAN]

DefaultConfigMut == [show_temperature |-> TRUE, show_cpu_memory |-> TRUE,
                     show_sd_memory |-> TRUE, show_hostname |-> FALSE]

\* struct DisplayConfig config = {1,1,1,1};
DefaultConfig == [show_temperature |-> TRUE, show_cpu_memory |-> TRUE,
                  show_sd_memory |-> TRUE, show_hostname |-> TRUE]

CharAt(s, k) == IF k <= Len(s) THEN s[k] ELSE 0

RECURSIVE strcmpFrom(_, _, _)
strcmpFrom(a, b, k) ==
    LET ca == CharAt(a, k)
        cb == CharAt(b, k)
    IN IF ca # cb THEN ca - cb
       ELSE IF ca = 0 THEN 0
       ELSE strcmpFrom(a, b, k + 1)

strcmp(a, b) == strcmpFrom(a, b, 1)

IsDebugArgMut(s) == strcmp(s, DashD) = 0

\* strcmp(argv[i], "-d") == 0 || strcmp(argv[i], "--debug") == 0
IsDebugArg(s) == strcmp(s, DashD) = 0 \/ strcmp(s, DashDashDebug) = 0

\* What load_display_config may do to the config it is given: on success any
\* four flags, on failure the config is left as it was.
load_display_config(cfg) ==
    {<<TRUE, c>> : c \in ConfigSet} \cup {<<FALSE, cfg>>}

\* The handle ssd1306_begin leaves in the global i2cd: -1 when the open fails.
ssd1306_begin == {-1, 3}

AppendIfMut(flag, id, order, count) ==
    <<[order EXCEPT ![count] = id], count + 1>>

\* if (flag) display_order[display_count++] = id;
AppendIf(flag, id, order, count) ==
    IF flag THEN <<[order EXCEPT ![count] = id], count + 1>>
    ELSE <<order, count>>

I2cFailedMut(fd) == fd < -1

\* if(i2cd<0)
I2cFailed(fd) == fd < 0

\* while(display_count > 0)
LoopCond(n) == n > 0

NextIdxStride(k, n) == (k + 2) % n

NextIdxOver(k, n) == (k + 1) % (n + 1)

\* idx = (idx + 1) % display_count;
NextIdx(k, n) == (k + 1) % n

\* The values a read of display_order[k] may yield.
ReadSlot(order, k) ==
    IF k \in DOMAIN order /\ order[k] # Unwritten THEN {order[k]}
    ELSE Indeterminate

\* The last n elements of s.
LastN(s, n) == IF Len(s) <= n THEN s ELSE SubSeq(s, Len(s) - n + 1, Len(s))

Init ==
    /\ argv \in ArgLists
    /\ i = 1
    /\ debug = FALSE
    /\ config = DefaultConfig
    /\ display_order = [k \in 0..(OrderCap - 1) |-> Unwritten]
    /\ display_count = 0
    /\ idx = 0
    /\ i2cd = 0
    /\ pc = "args"
    /\ loadCalls = 0
    /\ loadOK = FALSE
    /\ loadArg = FALSE
    /\ warnings = 0
    /\ beginCalls = 0
    /\ errMsgs = 0
    /\ ipCalls = 0
    /\ hostnameCalls = 0
    /\ exitStatus = -1
    /\ lastCall = "none"
    /\ lastPos = -1
    /\ recent = <<>>
    /\ slept = 0
    /\ sleepCalls = 0

\* Lines 14-18: one iteration of the argument loop.
ParseArg ==
    /\ pc = "args"
    /\ i < argc
    /\ debug' = IF IsDebugArg(argv[i]) THEN TRUE ELSE debug
    /\ i' = i + 1
    /\ UNCHANGED <<argv, config, display_order, display_count, idx, i2cd, pc>>
    /\ UNCHANGED <<callVars, obsVars>>

\* Line 14 with i >= argc, then the declarations of lines 19-21.
ParseDone ==
    /\ pc = "args"
    /\ ~(i < argc)
    /\ config' = DefaultConfig
    /\ display_count' = 0
    /\ pc' = "load"
    /\ UNCHANGED <<argv, i, debug, display_order, idx, i2cd>>
    /\ UNCHANGED <<callVars, obsVars>>

\* Line 22, load_display_config returned true.
LoadOk ==
    /\ pc = "load"
    /\ \E r \in load_display_config(config) :
         /\ r[1]
         /\ config' = r[2]
    /\ loadOK' = TRUE
    /\ loadArg' = debug
    /\ loadCalls' = loadCalls + 1
    /\ pc' = "b0"
    /\ UNCHANGED <<argv, i, debug, display_order, display_count, idx, i2cd>>
    /\ UNCHANGED <<warnings, beginCalls, errMsgs, ipCalls, hostnameCalls, exitStatus>>
    /\ UNCHANGED obsVars

\* Lines 22-24, load_display_config returned false: the warning is printed.
LoadFail ==
    /\ pc = "load"
    /\ \E r \in load_display_config(config) :
         /\ ~r[1]
         /\ config' = r[2]
    /\ loadOK' = FALSE
    /\ loadArg' = debug
    /\ loadCalls' = loadCalls + 1
    /\ warnings' = warnings + 1
    /\ pc' = "b0"
    /\ UNCHANGED <<argv, i, debug, display_order, display_count, idx, i2cd>>
    /\ UNCHANGED <<beginCalls, errMsgs, ipCalls, hostnameCalls, exitStatus>>
    /\ UNCHANGED obsVars

\* One of the four statements of lines 25-28.
BuildStep(from, to, flag, id) ==
    /\ pc = from
    /\ LET r == AppendIf(flag, id, display_order, display_count)
       IN /\ display_order' = r[1]
          /\ display_count' = r[2]
    /\ pc' = to
    /\ UNCHANGED <<argv, i, debug, config, idx, i2cd>>
    /\ UNCHANGED <<callVars, obsVars>>

\* Line 25.
Build0 == BuildStep("b0", "b1", config.show_temperature, 0)

\* Line 26.
Build1 == BuildStep("b1", "b2", config.show_cpu_memory, 1)

\* Line 27.
Build2 == BuildStep("b2", "b3", config.show_sd_memory, 2)

Build3Mut ==
    /\ BuildStep("b3", "check", config.show_hostname, 3)

\* Line 28.
Build3 == BuildStep("b3", "begin", config.show_hostname, 3)

\* Line 30: ssd1306_begin opens the device and sets i2cd.
Begin ==
    /\ pc = "begin"
    /\ i2cd' \in ssd1306_begin
    /\ beginCalls' = beginCalls + 1
    /\ pc' = "check"
    /\ UNCHANGED <<argv, i, debug, config, display_order, display_count, idx>>
    /\ UNCHANGED <<loadCalls, loadOK, loadArg, warnings, errMsgs, ipCalls,
                   hostnameCalls, exitStatus>>
    /\ UNCHANGED obsVars

\* Lines 31-35: the open failed, print the message and return 0.
CheckFail ==
    /\ pc = "check"
    /\ I2cFailed(i2cd)
    /\ errMsgs' = errMsgs + 1
    /\ exitStatus' = 0
    /\ pc' = "done"
    /\ UNCHANGED progVars
    /\ UNCHANGED <<loadCalls, loadOK, loadArg, warnings, beginCalls, ipCalls,
                   hostnameCalls>>
    /\ UNCHANGED obsVars

\* Line 31 with i2cd >= 0.
CheckOk ==
    /\ pc = "check"
    /\ ~I2cFailed(i2cd)
    /\ pc' = "usleep"
    /\ UNCHANGED <<progVars, callVars, obsVars>>

\* Line 36: usleep(150*1000).
Usleep ==
    /\ pc = "usleep"
    /\ slept' = slept + 150
    /\ pc' = "ip"
    /\ UNCHANGED <<progVars, callVars>>
    /\ UNCHANGED <<lastCall, lastPos, recent, sleepCalls>>

GetIpMut ==
    /\ pc = "ip"
    /\ pc' = "hostname"
    /\ UNCHANGED <<progVars, callVars, obsVars>>

\* Line 37: FirstGetIpAddress().
GetIp ==
    /\ pc = "ip"
    /\ ipCalls' = ipCalls + 1
    /\ pc' = "hostname"
    /\ UNCHANGED progVars
    /\ UNCHANGED <<loadCalls, loadOK, loadArg, warnings, beginCalls, errMsgs,
                   hostnameCalls, exitStatus>>
    /\ UNCHANGED obsVars

\* Lines 38-39: LCD_DisplayHostname().
ShowHostname ==
    /\ pc = "hostname"
    /\ config.show_hostname
    /\ hostnameCalls' = hostnameCalls + 1
    /\ lastCall' = "hostname"
    /\ slept' = 0
    /\ sleepCalls' = 0
    /\ pc' = "hsleep"
    /\ UNCHANGED progVars
    /\ UNCHANGED <<loadCalls, loadOK, loadArg, warnings, beginCalls, errMsgs,
                   ipCalls, exitStatus>>
    /\ UNCHANGED <<lastPos, recent>>

\* Line 38 with show_hostname false.
SkipHostname ==
    /\ pc = "hostname"
    /\ ~config.show_hostname
    /\ pc' = "idxinit"
    /\ UNCHANGED <<progVars, callVars, obsVars>>

HostnameSleepMut ==
    /\ pc = "hsleep"
    /\ pc' = "idxinit"
    /\ UNCHANGED <<progVars, callVars, obsVars>>

\* Line 40: sleep(3).
HostnameSleep ==
    /\ pc = "hsleep"
    /\ slept' = slept + 3000
    /\ sleepCalls' = sleepCalls + 1
    /\ pc' = "idxinit"
    /\ UNCHANGED <<progVars, callVars>>
    /\ UNCHANGED <<lastCall, lastPos, recent>>

\* Line 42: int idx = 0.
IdxInit ==
    /\ pc = "idxinit"
    /\ idx' = 0
    /\ pc' = "while"
    /\ UNCHANGED <<argv, i, debug, config, display_order, display_count, i2cd>>
    /\ UNCHANGED <<callVars, obsVars>>

\* Line 43, condition true.
WhileEnter ==
    /\ pc = "while"
    /\ LoopCond(display_count)
    /\ pc' = "display"
    /\ UNCHANGED <<progVars, callVars, obsVars>>

\* Line 43, condition false, then line 51: return 0.
WhileExit ==
    /\ pc = "while"
    /\ ~LoopCond(display_count)
    /\ exitStatus' = 0
    /\ pc' = "done"
    /\ UNCHANGED progVars
    /\ UNCHANGED <<loadCalls, loadOK, loadArg, warnings, beginCalls, errMsgs,
                   ipCalls, hostnameCalls>>
    /\ UNCHANGED obsVars

\* Line 45: LCD_Display(display_order[idx]).
Display ==
    /\ pc = "display"
    /\ \E v \in ReadSlot(display_order, idx) :
         recent' = LastN(Append(recent, v), display_count)
    /\ lastPos' = idx
    /\ lastCall' = "display"
    /\ slept' = 0
    /\ sleepCalls' = 0
    /\ pc' = "sleep1"
    /\ UNCHANGED <<progVars, callVars>>

\* One sleep(1) of lines 46-48.
SleepStep(from, to) ==
    /\ pc = from
    /\ slept' = slept + 1000
    /\ sleepCalls' = sleepCalls + 1
    /\ pc' = to
    /\ UNCHANGED <<progVars, callVars>>
    /\ UNCHANGED <<lastCall, lastPos, recent>>

\* Line 46.
Sleep1 == SleepStep("sleep1", "sleep2")

Sleep2Mut ==
    /\ pc = "sleep2"
    /\ pc' = "sleep3"
    /\ UNCHANGED <<progVars, callVars, obsVars>>

\* Line 47.
Sleep2 == SleepStep("sleep2", "sleep3")

\* Line 48.
Sleep3 == SleepStep("sleep3", "advance")

\* Line 49.
Advance ==
    /\ pc = "advance"
    /\ idx' = NextIdx(idx, display_count)
    /\ pc' = "while"
    /\ UNCHANGED <<argv, i, debug, config, display_order, display_count, i2cd>>
    /\ UNCHANGED <<callVars, obsVars>>

Next ==
    \/ ParseArg
    \/ ParseDone
    \/ LoadOk
    \/ LoadFail
    \/ Build0
    \/ Build1
    \/ Build2
    \/ Build3
    \/ Begin
    \/ CheckFail
    \/ CheckOk
    \/ Usleep
    \/ GetIp
    \/ ShowHostname
    \/ SkipHostname
    \/ HostnameSleep
    \/ IdxInit
    \/ WhileEnter
    \/ WhileExit
    \/ Display
    \/ Sleep1
    \/ Sleep2
    \/ Sleep3
    \/ Advance

Spec == Init /\ [][Next]_vars

\* main is one sequential thread and every call it makes returns, so a step
\* that can be taken is taken.
FairSpec == Spec /\ WF_vars(Next)

(***************************************************************************)
(* Vocabulary of the properties.                                           *)
(***************************************************************************)

\* The flag that enables screen s.
ScreenEnabled(c, s) ==
    CASE s = 0 -> c.show_temperature
      [] s = 1 -> c.show_cpu_memory
      [] s = 2 -> c.show_sd_memory
      [] s = 3 -> c.show_hostname

\* The screens 0,1,2,3 filtered by the flags of c, in that order.
ExpectedOrder(c) ==
    LET Test(s) == ScreenEnabled(c, s)
    IN SelectSeq(<<0, 1, 2, 3>>, Test)

EnabledScreens(c) == {s \in 0..3 : ScreenEnabled(c, s)}

\* The written prefix of display_order as a sequence.
RotationList == [k \in 1..display_count |-> display_order[k - 1]]

BeforeBuilt == {"args", "load", "b0", "b1", "b2", "b3"}

Built == pc \notin BeforeBuilt

LoopPcs == {"display", "sleep1", "sleep2", "sleep3", "advance"}

InLoop == pc \in LoopPcs \cup {"while"} /\ display_count > 0

DisplayStep == pc = "display" /\ pc' = "sleep1"

AllFlagsFalse ==
    /\ loadCalls = 1
    /\ EnabledScreens(config) = {}

ArgsHaveDebug == \E k \in 1..Len(argv) : argv[k] = DashD \/ argv[k] = DashDashDebug

\* C1: once the four appends of lines 25-28 have run, display_order[0..
\* display_count-1] is exactly 0,1,2,3 filtered by the four flags of the
\* config, the other slots were never written, no identifier occurs twice,
\* and display_count is the number of true flags.
C1_RotationList ==
    Built =>
      /\ RotationList = ExpectedOrder(config)
      /\ display_count = Cardinality(EnabledScreens(config))
      /\ \A k \in display_count..(OrderCap - 1) : display_order[k] = Unwritten
      /\ \A j, k \in 0..(display_count - 1) :
           display_order[j] = display_order[k] => j = k

C1_Witness ==
    /\ Built
    /\ loadOK
    /\ config = [show_temperature |-> TRUE, show_cpu_memory |-> FALSE,
                 show_sd_memory |-> TRUE, show_hostname |-> FALSE]
    /\ RotationList = <<0, 2>>

\* C2: with the device open and a non-empty list, the first LCD_Display
\* renders position 0 and each later one the position after the previous
\* one, wrapping to 0; the last display_count renders are a permutation of
\* the enabled screens; the loop is never left; every enabled screen is
\* rendered again and again.
C2_Rotation ==
    /\ [][DisplayStep =>
            /\ lastPos' = (IF lastPos = -1 THEN 0 ELSE (lastPos + 1) % display_count)
            /\ recent'[Len(recent')] = ExpectedOrder(config)[lastPos' + 1]]_vars
    /\ [](Len(recent) = display_count /\ display_count > 0 =>
            /\ {recent[k] : k \in 1..Len(recent)} = EnabledScreens(config)
            /\ \A j, k \in 1..Len(recent) : recent[j] = recent[k] => j = k)
    /\ [][InLoop => pc' # "done"]_vars
    /\ \A s \in 0..3 :
         [](InLoop /\ ScreenEnabled(config, s) =>
              <>(pc = "sleep1" /\ recent[Len(recent)] = s))

C2_Witness ==
    /\ pc = "sleep1"
    /\ display_count = 3
    /\ Len(recent) = 3
    /\ lastPos = 0
    /\ recent = <<1, 3, 0>>

\* C3: LCD_DisplayHostname is called at most once and only when
\* show_hostname is true; when show_hostname is true and the device opened
\* it is called, before any LCD_Display, and the first LCD_Display comes
\* after a 3000 ms pause that follows it; screen 3 is the last entry of the
\* rotation list and the loop renders it.
C3_HostnameSplash ==
    /\ [](/\ hostnameCalls <= 1
          /\ (hostnameCalls > 0 => config.show_hostname /\ beginCalls = 1 /\ i2cd >= 0)
          /\ (loadCalls = 1 /\ ~config.show_hostname => hostnameCalls = 0)
          /\ (config.show_hostname /\ pc \in LoopPcs \cup {"while", "idxinit"} =>
                hostnameCalls = 1)
          /\ (config.show_hostname /\ Built =>
                display_count > 0 /\ display_order[display_count - 1] = 3))
    /\ [][hostnameCalls' # hostnameCalls => lastCall = "none"]_vars
    /\ [][DisplayStep /\ lastCall # "display" /\ config.show_hostname =>
            lastCall = "hostname" /\ slept = 3000 /\ sleepCalls = 1]_vars
    /\ [](pc = "hostname" /\ config.show_hostname =>
            <>(pc = "sleep1" /\ hostnameCalls = 1 /\ recent[Len(recent)] = 3))

C3_Witness ==
    /\ pc = "sleep1"
    /\ hostnameCalls = 1
    /\ config.show_hostname
    /\ recent # <<>>
    /\ recent[Len(recent)] = 3

\* C4 as stated: whenever the process has exited with all four flags false,
\* FirstGetIpAddress was called and nothing was rendered.
C4_Original ==
    AllFlagsFalse /\ pc = "done" =>
      /\ ipCalls = 1
      /\ lastCall = "none"
      /\ hostnameCalls = 0

\* C4 amended: with all four flags false nothing is ever rendered and the
\* loop body is never entered; the process always exits; and when the
\* device opened it has called FirstGetIpAddress once by then.
C4_EmptyListExits ==
    /\ [](AllFlagsFalse =>
            /\ lastCall = "none"
            /\ hostnameCalls = 0
            /\ recent = <<>>
            /\ pc \notin LoopPcs
            /\ (pc = "done" => exitStatus = 0)
            /\ (pc = "done" /\ i2cd >= 0 => ipCalls = 1))
    /\ [](AllFlagsFalse => <>(pc = "done"))

C4_Witness ==
    /\ AllFlagsFalse
    /\ pc = "done"
    /\ i2cd >= 0
    /\ ipCalls = 1

\* C5: after load_display_config has reported failure the config has all
\* four flags true, the warning was printed exactly once, the list built
\* from it is 0,1,2,3, the hostname splash is shown once the device opened,
\* and the process does not exit before ssd1306_begin was called.
C5_LoadFailureDefaults ==
    loadCalls = 1 /\ ~loadOK =>
      /\ config = [show_temperature |-> TRUE, show_cpu_memory |-> TRUE,
                   show_sd_memory |-> TRUE, show_hostname |-> TRUE]
      /\ warnings = 1
      /\ (Built => RotationList = <<0, 1, 2, 3>>)
      /\ (pc \in LoopPcs \cup {"while", "idxinit", "hsleep"} => hostnameCalls = 1)
      /\ (pc = "done" => beginCalls = 1)

C5_Witness ==
    /\ loadCalls = 1
    /\ ~loadOK
    /\ warnings = 1
    /\ pc = "sleep1"
    /\ recent = <<0, 1, 2, 3>>

\* C6: when ssd1306_begin left i2cd negative, it was called once, the error
\* line is printed once and main returns 0 at once: FirstGetIpAddress,
\* LCD_DisplayHostname and LCD_Display are never called.  Every exit of main
\* has status 0.
C6_I2cOpenFailure ==
    /\ (beginCalls >= 1 /\ i2cd < 0 =>
          /\ beginCalls = 1
          /\ pc \in {"check", "done"}
          /\ errMsgs = (IF pc = "done" THEN 1 ELSE 0)
          /\ ipCalls = 0
          /\ hostnameCalls = 0
          /\ lastCall = "none"
          /\ recent = <<>>)
    /\ (pc = "done" <=> exitStatus = 0)
    /\ exitStatus \in {-1, 0}
    /\ (i2cd >= 0 => errMsgs = 0)

C6_Witness ==
    /\ beginCalls = 1
    /\ i2cd < 0
    /\ pc = "done"
    /\ errMsgs = 1
    /\ exitStatus = 0

\* C7 as stated: the configuration is never loaded, and its warning never
\* printed, before the display driver was initialised.
C7_Original ==
    /\ (loadCalls > 0 => beginCalls > 0)
    /\ (warnings > 0 => beginCalls > 0)

\* C7 amended: the configuration is loaded first (with its warning on
\* failure), then the rotation list is built, then the driver is
\* initialised, then the hostname is optionally shown once, then the loop
\* runs.
C7_StartupOrder ==
    /\ (display_count > 0 \/ display_order # [k \in 0..(OrderCap - 1) |-> Unwritten] =>
          loadCalls = 1)
    /\ (beginCalls > 0 =>
          /\ loadCalls = 1
          /\ warnings = (IF loadOK THEN 0 ELSE 1)
          /\ RotationList = ExpectedOrder(config))
    /\ (ipCalls > 0 \/ hostnameCalls > 0 \/ lastCall # "none" => beginCalls = 1)
    /\ (lastCall = "display" =>
          hostnameCalls = (IF config.show_hostname THEN 1 ELSE 0))

C7_Witness ==
    /\ beginCalls = 1
    /\ loadCalls = 1
    /\ hostnameCalls = 1
    /\ lastCall = "display"

\* C8: between two LCD_Display calls there are exactly three sleeps of
\* 1000 ms each; idx changes only in the step after the third sleep, and
\* that step sets it to (idx + 1) mod display_count.
C8_PauseThenAdvance ==
    [][/\ (DisplayStep /\ lastCall = "display" => sleepCalls = 3 /\ slept = 3000)
       /\ (lastCall = "display" /\ sleepCalls' = sleepCalls + 1 =>
             slept' = slept + 1000)
       /\ (idx' # idx => pc = "advance")
       /\ (pc = "advance" =>
             /\ sleepCalls = 3
             /\ slept = 3000
             /\ lastCall = "display"
             /\ idx' = (idx + 1) % display_count)]_vars

C8_Witness ==
    /\ pc = "advance"
    /\ sleepCalls = 3
    /\ slept = 3000
    /\ display_count = 3
    /\ idx = 2

\* C9: while the arguments are scanned, debug is true exactly when one of
\* the arguments scanned so far is "-d" or "--debug"; afterwards, and in the
\* value passed to load_display_config, it is true exactly when some
\* argument is; the rotation list and the splash depend on the config only.
C9_DebugFlag ==
    /\ (pc = "args" =>
          debug = (\E k \in 1..(i - 1) : argv[k] = DashD \/ argv[k] = DashDashDebug))
    /\ (pc # "args" => debug = ArgsHaveDebug)
    /\ (loadCalls = 1 => loadArg = ArgsHaveDebug)
    /\ (pc \in {"begin", "check", "done"} => RotationList = ExpectedOrder(config))
    /\ (pc = "idxinit" => hostnameCalls = (IF config.show_hostname THEN 1 ELSE 0))

C9_Witness ==
    /\ loadCalls = 1
    /\ loadArg
    /\ argv = <<<<45, 100, 120>>, DashDashDebug>>

\* C10: display_count stays within 0..4; inside the loop body idx is a
\* written position of display_order; once the list is built neither
\* display_count nor display_order changes.
C10_Bounds ==
    /\ [](/\ display_count \in 0..OrderCap
          /\ DOMAIN display_order = 0..(OrderCap - 1)
          /\ (pc \in LoopPcs =>
                /\ 0 <= idx
                /\ idx < display_count
                /\ display_order[idx] # Unwritten))
    /\ [][Built => UNCHANGED <<display_count, display_order>>]_vars

C10_Witness ==
    /\ pc = "display"
    /\ idx = 3
    /\ display_count = 4

====
